---- MODULE Spec2Model ----
(***************************************************************************)
(* Model of claude-bridge-lambda/lambda_function.py: the Lambda handler    *)
(* that resolves a user and a project in DynamoDB, loads the project's     *)
(* conversation from S3, asks the completion service for a reply and       *)
(* writes the extended conversation back.  Every call to an external       *)
(* service is one atomic step of an invocation, so that invocations can    *)
(* interleave exactly where the code can be preempted by another one.      *)
(***************************************************************************)
EXTENDS Integers, Sequences, FiniteSets, TLC

\* ------------------------------------------------------------------ bounds
MaxInvocations == 2      \* invocations started in one behaviour
MaxStoredTurns == 2      \* turns committed before a behaviour of SpecStored starts
MaxLaterInvocations == 1 \* invocations started in one behaviour of SpecStored
MaxStatusCalls == 1      \* calls of update_project_status in one behaviour

\* ------------------------------------------------------------- input sets
Procs == {1, 2}                       \* Lambda execution environments
NONE == "<absent>"                    \* a key that is not in a dict / item
Emails == {"e1"}
UserIds == {"u1"}
Inputs == {"hello", "continue"}
ProjectIds == {"p1"}
Replies == {"reply"}                  \* response.content[0].text
Outcomes == {"ok", "ClientError", "Exception"}

\* The payloads lambda_handler can be invoked with: each key present or not,
\* the identifier under one name and the project id under one name.
Events ==
    {ev \in [email : Emails \cup {NONE}, userId : UserIds \cup {NONE},
             input : Inputs \cup {NONE},
             project_id : ProjectIds \cup {NONE}, projectId : ProjectIds \cup {NONE}] :
        /\ ev.email = NONE \/ ev.userId = NONE
        /\ ev.project_id = NONE \/ ev.projectId = NONE}

VARIABLES
    users,        \* DynamoDB table Users: a set of items
    projects,     \* DynamoDB table Projects: (projectId, userId) -> item
    s3,           \* bucket project-conversation-context: key -> body
    clock,        \* the wall clock datetime.utcnow() reads
    started,      \* invocations started so far
    status_calls, \* calls of update_project_status so far
    status_call,  \* the call of update_project_status in progress, or the last one
    pc,           \* per invocation: the call it is about to make
    event,        \* per invocation: the payload
    loc,          \* per invocation: the handler's local variables
    calls,        \* per invocation: the external calls made, with outcomes
    sent,         \* per invocation: claude_messages handed to the service
    lastPut,      \* per S3 key: the invocation whose put_object came last
    saved,        \* per S3 key: the messages last handed to put_object
    before,       \* per invocation: the tables and the bucket as it found them
    response      \* per invocation: what lambda_handler returned

vars == <<users, projects, s3, clock, started, status_calls, status_call, pc, event, loc, calls,
          sent, lastPut, saved, before, response>>

\* ------------------------------------------------------------ pure helpers
\* str(uuid4()): a value that is in use nowhere; `used` are the ids in use.
UuidPool == <<"g1", "g2", "g3", "g4", "g5", "g6", "g7", "g8", "g9", "g10",
              "g11", "g12">>
uuid4(used) ==
    UuidPool[CHOOSE i \in DOMAIN UuidPool :
                /\ UuidPool[i] \notin used
                /\ \A j \in 1..(i - 1) : UuidPool[j] \in used]

\* datetime.isoformat(): the timestamp as a string.
IsoTimes == <<"T0", "T1", "T2", "T3", "T4", "T5", "T6", "T7", "T8">>
isoformat(t) == IsoTimes[t + 1]

\* datetime.utcnow(): the reading of the clock c.  The clock is as coarse as
\* the start of an invocation: it advances whenever the handler is entered.
utcnow(c) == {c}

\* Mutant of s3_key: the key names the project only.
s3_key_project_only(user_id, project_id) == project_id \o "/conversation.json"

\* f'{user_id}/{project_id}/conversation.json'
s3_key(user_id, project_id) == user_id \o "/" \o project_id \o "/conversation.json"

\* f's3://{self.conversation_bucket}/{s3_key}'
conversation_location(key) == "s3://project-conversation-context/" \o key

Message(role, content, timestamp) ==
    [role |-> role, content |-> content, timestamp |-> timestamp]

\* Mutant of json_dumps: the content of a message is written where its role
\* belongs and its role where its content belongs.
RECURSIVE json_dumps_content_first(_)
json_dumps_content_first(messages) ==
    IF messages = << >> THEN << >>
    ELSE <<Head(messages).content, Head(messages).role, Head(messages).timestamp>>
         \o json_dumps_content_first(Tail(messages))

\* json.dumps(conversation): the dict {'messages': [...]} flattened to the
\* token stream of its serialisation, three value tokens per message.
RECURSIVE json_dumps(_)
json_dumps(messages) ==
    IF messages = << >> THEN << >>
    ELSE <<Head(messages).role, Head(messages).content, Head(messages).timestamp>>
         \o json_dumps(Tail(messages))

\* json.loads(body)['messages']: the token stream parsed back to messages.
RECURSIVE json_loads(_)
json_loads(body) ==
    IF Len(body) < 3 THEN << >>
    ELSE <<Message(body[1], body[2], body[3])>> \o json_loads(SubSeq(body, 4, Len(body)))

\* The handler's return values (lines 279-282, 286-289, 333-339, 345-350).
NoResponse == [statusCode |-> 0, body |-> [error |-> NONE]]
Response200(project_id, text) ==
    [statusCode |-> 200, body |-> [projectId |-> project_id, response |-> text]]
Response400(msg) == [statusCode |-> 400, body |-> [error |-> msg]]
Response500(e) ==
    [statusCode |-> 500, body |-> [error |-> "Internal server error: " \o e]]

\* A Projects item none of whose attributes is present.
NoItem ==
    [userId |-> NONE, projectId |-> NONE, createdAt |-> NONE, updatedAt |-> NONE,
     status |-> NONE, conversationLocation |-> NONE]

\* The handler's and the methods' local variables: project_item is the item
\* create_project builds (lines 121-126), timestamp the value of :timestamp
\* append_conversation passes to update_item (line 206).
NoLocals ==
    [email |-> NONE, user_input |-> NONE, project_id |-> NONE, user_id |-> NONE,
     conversation |-> << >>, assistant_response |-> NONE,
     project_item |-> NoItem, timestamp |-> NONE]

NoStores == [users |-> {}, projects |-> << >>, s3 |-> << >>]

Call(op, outcome) == [op |-> op, outcome |-> outcome]

\* update_project_status when it is not running: its position, its
\* arguments, the :timestamp it evaluated and how its update_item ended.
NoStatusCall ==
    [pc |-> "idle", project_id |-> NONE, user_id |-> NONE, status |-> NONE,
     timestamp |-> NONE, outcome |-> NONE]

\* ------------------------------------------------------------------- Init
Init ==
    /\ users = {}
    /\ projects = << >>
    /\ s3 = << >>
    /\ clock = 0
    /\ started = 0
    /\ status_calls = 0
    /\ status_call = NoStatusCall
    /\ pc = [p \in Procs |-> "idle"]
    /\ event = [p \in Procs |-> [email |-> NONE, userId |-> NONE, input |-> NONE,
                                 project_id |-> NONE, projectId |-> NONE]]
    /\ loc = [p \in Procs |-> NoLocals]
    /\ calls = [p \in Procs |-> << >>]
    /\ sent = [p \in Procs |-> << >>]
    /\ lastPut = << >>
    /\ saved = << >>
    /\ before = [p \in Procs |-> NoStores]
    /\ response = [p \in Procs |-> NoResponse]

\* ------------------------------------------------ lambda_handler, by steps
\* Mutant of validation_error: the check of 'input' is missing.
validation_error_email_only(ev) ==
    IF ev.email = NONE THEN "email is required" ELSE ""

\* Lines 277-289: the validation of the payload; "" when it passes.
validation_error(ev) ==
    IF ev.email = NONE THEN "email is required"
    ELSE IF ev.input = NONE THEN "user input is required"
    ELSE ""

\* Mutant of requested_project_id: the id is also read from 'projectId'.
requested_project_id_either_key(ev, used) ==
    IF ev.project_id # NONE THEN ev.project_id
    ELSE IF ev.projectId # NONE THEN ev.projectId ELSE uuid4(used)

\* Mutant of requested_project_id: a fixed default instead of a fresh uuid.
requested_project_id_fixed_default(ev, used) ==
    IF ev.project_id # NONE THEN ev.project_id ELSE "default"

\* Line 293: event.get('project_id', str(uuid4())).
requested_project_id(ev, used) ==
    IF ev.project_id # NONE THEN ev.project_id ELSE uuid4(used)

\* The ids held by the tables and by the running invocations.
ids_in_use ==
    {u.userId : u \in users} \cup {k[1] : k \in DOMAIN projects}
    \cup {k[2] : k \in DOMAIN projects}
    \cup {loc[p].project_id : p \in Procs} \cup {loc[p].user_id : p \in Procs}

\* Mutant of handler_except: the exception leaves the handler, which returns
\* no response.
handler_except_reraise(p, e) ==
    /\ response' = [response EXCEPT ![p] = NoResponse]
    /\ pc' = [pc EXCEPT ![p] = "done"]

\* The except clause of lambda_handler (lines 341-350): whatever a step
\* raises becomes a 500 response.
handler_except(p, e) ==
    /\ response' = [response EXCEPT ![p] = Response500(e)]
    /\ pc' = [pc EXCEPT ![p] = "done"]

\* Lines 273-295: the handler is entered with a payload and validates it.
enter(p, ev) ==
    /\ pc[p] = "idle"
    /\ started < MaxInvocations
    /\ started' = started + 1
    /\ clock' = clock + 1
    /\ event' = [event EXCEPT ![p] = ev]
    /\ calls' = [calls EXCEPT ![p] = << >>]
    /\ sent' = [sent EXCEPT ![p] = << >>]
    /\ before' = [before EXCEPT ![p] = [users |-> users, projects |-> projects, s3 |-> s3]]
    /\ IF validation_error(ev) # ""
       THEN /\ response' = [response EXCEPT ![p] = Response400(validation_error(ev))]
            /\ pc' = [pc EXCEPT ![p] = "done"]
            /\ loc' = [loc EXCEPT ![p] = NoLocals]
       ELSE /\ response' = [response EXCEPT ![p] = NoResponse]
            /\ pc' = [pc EXCEPT ![p] = "init"]
            /\ loc' = [loc EXCEPT ![p] =
                          [NoLocals EXCEPT !.email = ev.email,
                                           !.user_input = ev.input,
                                           !.project_id = requested_project_id(ev, ids_in_use)]]
    /\ UNCHANGED <<users, projects, s3, status_calls, status_call, lastPut, saved>>

\* Appends one entry to the invocation's record of external calls.
log_call(p, op, outcome) == calls' = [calls EXCEPT ![p] = Append(@, Call(op, outcome))]

\* Line 297, ProjectGenerator.__init__ (lines 12-53): the API key is read from
\* Secrets Manager; _init_claude re-raises a ClientError (lines 39-41) and
\* nothing catches anything else.
ProjectGenerator_init(p, O) ==
    /\ pc[p] = "init"
    /\ \E o \in O :
        /\ log_call(p, "secretsmanager.get_secret_value", o)
        /\ IF o = "ok"
           THEN /\ pc' = [pc EXCEPT ![p] = "get_user"]
                /\ UNCHANGED response
           ELSE handler_except(p, o)
    /\ UNCHANGED <<users, projects, s3, clock, started, status_calls, status_call, event, loc, sent, lastPut, saved, before>>

\* get_user (lines 55-71): does the scan's failure leave the method?  A
\* ClientError is caught and None returned (lines 69-71).
get_user_raises(o) == o = "Exception"

\* get_user (lines 59-68): the items the scan's filter lets through.
scan_email(table, email) == {u \in table : u.email = email}

\* Line 300 first half, get_or_create_user line 91: get_user.  With several
\* items for one email, user[0] is whichever the scan lists first.
get_user(p, O) ==
    /\ pc[p] = "get_user"
    /\ \E o \in O :
        /\ log_call(p, "users_table.scan", o)
        /\ IF get_user_raises(o)
           THEN handler_except(p, o) /\ UNCHANGED loc
           ELSE /\ UNCHANGED response
                /\ IF o = "ok" /\ scan_email(users, loc[p].email) # {}
                   THEN /\ \E u \in scan_email(users, loc[p].email) :
                             loc' = [loc EXCEPT ![p].user_id = u.userId]
                        /\ pc' = [pc EXCEPT ![p] = "get_project"]
                   ELSE /\ pc' = [pc EXCEPT ![p] = "create_user"]
                        /\ UNCHANGED loc
    /\ UNCHANGED <<users, projects, s3, clock, started, status_calls, status_call, event, sent, lastPut, saved, before>>

\* get_or_create_user lines 92-93, create_user (lines 73-86), handler line 301.
create_user(p, O) ==
    /\ pc[p] = "create_user"
    /\ \E o \in O :
        /\ log_call(p, "users_table.put_item", o)
        /\ IF o = "ok"
           THEN /\ users' = users \cup {[userId |-> uuid4(ids_in_use), email |-> loc[p].email]}
                /\ loc' = [loc EXCEPT ![p].user_id = uuid4(ids_in_use)]
                /\ pc' = [pc EXCEPT ![p] = "get_project"]
                /\ UNCHANGED response
           ELSE handler_except(p, o) /\ UNCHANGED <<users, loc>>
    /\ UNCHANGED <<projects, s3, clock, started, status_calls, status_call, event, sent, lastPut, saved, before>>

\* get_project (lines 96-115): does the lookup's failure leave the method?  A
\* ClientError is caught and None returned (lines 113-115).
get_project_raises(o) == o = "Exception"

\* Key={'projectId': project_id, 'userId': user_id}
project_key(user_id, project_id) == <<project_id, user_id>>

\* create_project lines 121-126: the item written for a new project.
project_item(user_id, project_id, t1, t2) ==
    [userId |-> user_id, projectId |-> project_id,
     createdAt |-> isoformat(t1), updatedAt |-> isoformat(t2),
     status |-> NONE, conversationLocation |-> NONE]

\* Line 304 first half, get_or_create_project lines 139-141: get_project,
\* and when it returns no project, create_project up to its call (lines
\* 118-126): the item is built, with the clock read twice, before put_item is
\* called.
get_project(p, O) ==
    /\ pc[p] = "get_project"
    /\ \E o \in O :
        /\ log_call(p, "projects_table.get_item", o)
        /\ IF get_project_raises(o)
           THEN handler_except(p, o) /\ UNCHANGED loc
           ELSE /\ UNCHANGED response
                /\ IF o = "ok" /\ project_key(loc[p].user_id, loc[p].project_id) \in DOMAIN projects
                   THEN pc' = [pc EXCEPT ![p] = "load"] /\ UNCHANGED loc
                   ELSE /\ pc' = [pc EXCEPT ![p] = "create_project"]
                        /\ \E t1 \in utcnow(clock) : \E t2 \in utcnow(t1) :
                             loc' = [loc EXCEPT ![p].project_item =
                                        project_item(loc[p].user_id, loc[p].project_id,
                                                     t1, t2)]
    /\ UNCHANGED <<users, projects, s3, clock, started, status_calls, status_call, event, sent, lastPut, saved, before>>

\* create_project lines 127-133: put_item writes the item built before the
\* call and replaces whatever item the key holds.
create_project(p, O) ==
    /\ pc[p] = "create_project"
    /\ \E o \in O :
        /\ log_call(p, "projects_table.put_item", o)
        /\ IF o = "ok"
           THEN /\ projects' =
                     (project_key(loc[p].user_id, loc[p].project_id) :>
                        loc[p].project_item)
                     @@ projects
                /\ pc' = [pc EXCEPT ![p] = "load"]
                /\ UNCHANGED response
           ELSE handler_except(p, o) /\ UNCHANGED projects
    /\ UNCHANGED <<users, s3, clock, started, status_calls, status_call, event, loc, sent, lastPut, saved, before>>

\* Mutant of get_conversation_context: a load keeps the newest stored
\* message only.
get_conversation_context_newest_only(bucket, key) ==
    IF key \in DOMAIN bucket /\ json_loads(bucket[key]) # << >>
    THEN <<json_loads(bucket[key])[Len(json_loads(bucket[key]))]>> ELSE << >>

\* Mutant of get_conversation_context: the oldest stored message is dropped
\* on load.
get_conversation_context_drop_oldest(bucket, key) ==
    IF key \in DOMAIN bucket /\ json_loads(bucket[key]) # << >>
    THEN Tail(json_loads(bucket[key])) ELSE << >>

\* Mutant of get_conversation_context: every load starts a new conversation.
get_conversation_context_always_new(bucket, key) == << >>

\* get_conversation_context lines 151-172 and 173-178: the messages of the
\* stored conversation, or none when get_object raises NoSuchKey.  The
\* trimming of lines 158-170 is commented out.
get_conversation_context(bucket, key) ==
    IF key \in DOMAIN bucket THEN json_loads(bucket[key]) ELSE << >>

\* Mutant of load_conversation: whatever get_object raises is taken for a
\* conversation that does not exist yet.
load_conversation_any_failure_is_new(p, O) ==
    /\ pc[p] = "load"
    /\ LET key == s3_key(loc[p].user_id, loc[p].project_id) IN
       \E o \in O :
        /\ log_call(p, "s3.get_object",
                    IF o = "ok" /\ key \notin DOMAIN s3 THEN "NoSuchKey" ELSE o)
        /\ \E t \in utcnow(clock) :
             loc' = [loc EXCEPT ![p].conversation =
                          Append(IF o = "ok" THEN get_conversation_context(s3, key) ELSE << >>,
                                 Message("user", loc[p].user_input, isoformat(t)))]
        /\ pc' = [pc EXCEPT ![p] = "generate"]
        /\ UNCHANGED response
    /\ UNCHANGED <<users, projects, s3, clock, started, status_calls, status_call, event, sent, lastPut, saved, before>>

\* Line 307, get_conversation_context (lines 144-181), then lines 311-317:
\* the user message is appended to the loaded conversation.
load_conversation(p, O) ==
    /\ pc[p] = "load"
    /\ LET key == s3_key(loc[p].user_id, loc[p].project_id) IN
       \E o \in O :
        /\ log_call(p, "s3.get_object",
                    IF o = "ok" /\ key \notin DOMAIN s3 THEN "NoSuchKey" ELSE o)
        /\ IF o = "ok"
           THEN /\ \E t \in utcnow(clock) :
                    loc' = [loc EXCEPT ![p].conversation =
                                 Append(get_conversation_context(s3, key),
                                        Message("user", loc[p].user_input, isoformat(t)))]
                /\ pc' = [pc EXCEPT ![p] = "generate"]
                /\ UNCHANGED response
           ELSE handler_except(p, o) /\ UNCHANGED loc
    /\ UNCHANGED <<users, projects, s3, clock, started, status_calls, status_call, event, sent, lastPut, saved, before>>

\* Mutant of claude_messages: only the newest message is handed over.
claude_messages_newest_only(messages) ==
    IF messages = << >> THEN << >>
    ELSE <<[role |-> messages[Len(messages)].role,
            content |-> messages[Len(messages)].content]>>

\* generate_response lines 245-252: each message reduced to role and content.
RECURSIVE claude_messages(_)
claude_messages(messages) ==
    IF messages = << >> THEN << >>
    ELSE <<[role |-> Head(messages).role, content |-> Head(messages).content]>>
         \o claude_messages(Tail(messages))

\* Line 321, generate_response (lines 239-271), then lines 322-328: one call
\* to the completion service; its failure is re-raised (lines 269-271).
generate_response(p, O) ==
    /\ pc[p] = "generate"
    /\ sent' = [sent EXCEPT ![p] = claude_messages(loc[p].conversation)]
    /\ \E o \in O \ {"ClientError"} :
        /\ log_call(p, "claude.messages.create", o)
        /\ IF o = "ok"
           THEN /\ \E r \in Replies : \E t \in utcnow(clock) :
                    loc' = [loc EXCEPT ![p].assistant_response = r,
                                       ![p].conversation =
                                           Append(@, Message("assistant", r, isoformat(t)))]
                /\ pc' = [pc EXCEPT ![p] = "put"]
                /\ UNCHANGED response
           ELSE handler_except(p, o) /\ UNCHANGED loc
    /\ UNCHANGED <<users, projects, s3, clock, started, status_calls, status_call, event, lastPut, saved, before>>

\* Mutant of put_object: the conversation is stored as it was loaded,
\* without the two turns appended to it.
put_object_without_new_turns(bucket, key, messages) ==
    (key :> json_dumps(SubSeq(messages, 1, Len(messages) - 2))) @@ bucket

\* Mutant of put_object: the new turns are appended to the stored object
\* instead of the object being overwritten.
put_object_appending(bucket, key, messages) ==
    IF key \in DOMAIN bucket
    THEN (key :> (bucket[key] \o json_dumps(SubSeq(messages, Len(messages) - 1, Len(messages)))))
         @@ bucket
    ELSE (key :> json_dumps(messages)) @@ bucket

\* Mutant of put_object: the call returns without storing the object.
put_object_not_stored(bucket, key, messages) == bucket

\* append_conversation lines 192-196: put_object overwrites the whole object.
put_object(bucket, key, messages) == (key :> json_dumps(messages)) @@ bucket

\* Line 330, append_conversation lines 185-196: the conversation is stored;
\* then the arguments of update_item are evaluated (lines 198-207), the clock
\* being read for :timestamp (line 206) before update_item is called.
append_conversation_put(p, O) ==
    /\ pc[p] = "put"
    /\ LET key == s3_key(loc[p].user_id, loc[p].project_id) IN
       \E o \in O :
        /\ log_call(p, "s3.put_object", o)
        /\ IF o = "ok"
           THEN /\ s3' = put_object(s3, key, loc[p].conversation)
                /\ lastPut' = (key :> p) @@ lastPut
                /\ saved' = (key :> loc[p].conversation) @@ saved
                /\ \E t \in utcnow(clock) :
                     loc' = [loc EXCEPT ![p].timestamp = isoformat(t)]
                /\ pc' = [pc EXCEPT ![p] = "update"]
                /\ UNCHANGED response
           ELSE handler_except(p, o) /\ UNCHANGED <<s3, lastPut, saved, loc>>
    /\ UNCHANGED <<users, projects, clock, started, status_calls, status_call, event, sent, before>>

\* append_conversation lines 198-208: update_item sets two attributes of the
\* item with the key, creating the item when the key holds none.
update_item(table, user_id, project_id, location, timestamp) ==
    LET k == project_key(user_id, project_id)
        old == IF k \in DOMAIN table THEN table[k]
               ELSE [NoItem EXCEPT !.userId = user_id, !.projectId = project_id]
    IN (k :> [old EXCEPT !.conversationLocation = location, !.updatedAt = timestamp])
       @@ table

\* append_conversation lines 198-214 and handler lines 332-339: update_item
\* points the project item at the conversation, with the :timestamp evaluated
\* before the call, and the handler returns 200.
append_conversation_update(p, O) ==
    /\ pc[p] = "update"
    /\ LET key == s3_key(loc[p].user_id, loc[p].project_id) IN
       \E o \in O :
        /\ log_call(p, "projects_table.update_item", o)
        /\ IF o = "ok"
           THEN /\ projects' = update_item(projects, loc[p].user_id, loc[p].project_id,
                                           conversation_location(key), loc[p].timestamp)
                /\ response' = [response EXCEPT ![p] =
                                   Response200(loc[p].project_id, loc[p].assistant_response)]
                /\ pc' = [pc EXCEPT ![p] = "done"]
           ELSE handler_except(p, o) /\ UNCHANGED projects
    /\ UNCHANGED <<users, s3, clock, started, status_calls, status_call, event, loc, sent, lastPut, saved, before>>

\* The response has been returned and the execution environment is free for
\* the next invocation.
finish(p) ==
    /\ pc[p] = "done"
    /\ pc' = [pc EXCEPT ![p] = "idle"]
    /\ event' = [event EXCEPT ![p] = [email |-> NONE, userId |-> NONE, input |-> NONE,
                                      project_id |-> NONE, projectId |-> NONE]]
    /\ loc' = [loc EXCEPT ![p] = NoLocals]
    /\ calls' = [calls EXCEPT ![p] = << >>]
    /\ sent' = [sent EXCEPT ![p] = << >>]
    /\ before' = [before EXCEPT ![p] = NoStores]
    /\ response' = [response EXCEPT ![p] = NoResponse]
    /\ UNCHANGED <<users, projects, s3, clock, started, status_calls, status_call, lastPut, saved>>

\* One step of a running invocation; O are the outcomes its call can have.
step(p, O) ==
    \/ ProjectGenerator_init(p, O)
    \/ get_user(p, O)
    \/ create_user(p, O)
    \/ get_project(p, O)
    \/ create_project(p, O)
    \/ load_conversation(p, O)
    \/ generate_response(p, O)
    \/ append_conversation_put(p, O)
    \/ append_conversation_update(p, O)
    \/ finish(p)

\* Invocations that do not overlap: one starts only when none is running, in
\* the execution environment that is reused first.
lambda_handler(p) ==
    /\ \A q \in Procs : pc[q] = "idle" /\ p <= q
    /\ \E ev \in Events : enter(p, ev)

\* Invocations started while others are running.
lambda_handler_concurrent(p) == \E ev \in Events : enter(p, ev)

Next == \E p \in Procs : lambda_handler(p) \/ step(p, Outcomes)

Spec == Init /\ [][Next]_vars

NextConcurrent == \E p \in Procs : lambda_handler_concurrent(p) \/ step(p, Outcomes)

SpecConcurrent == Init /\ [][NextConcurrent]_vars

\* The values update_project_status is called with.
Statuses == {"IN_PROGRESS", "COMPLETED"}

\* update_project_status lines 220-233: update_item sets status and updatedAt
\* of the item with the key, creating the item when the key holds none.
set_status(table, user_id, project_id, status, timestamp) ==
    LET k == project_key(user_id, project_id)
        old == IF k \in DOMAIN table THEN table[k]
               ELSE [NoItem EXCEPT !.userId = user_id, !.projectId = project_id]
    IN (k :> [old EXCEPT !.status = status, !.updatedAt = timestamp]) @@ table

\* ProjectGenerator.update_project_status (lines 216-237), a public method
\* lambda_handler never calls: a caller of the class sets the status of a
\* project.  Lines 216-232: the method is entered and the arguments of
\* update_item are evaluated, the clock being read for :timestamp (line 231)
\* before update_item is called.
update_project_status(project_id, user_id, status) ==
    /\ status_call.pc = "idle"
    /\ status_calls < MaxStatusCalls
    /\ status_calls' = status_calls + 1
    /\ \E t \in utcnow(clock) :
         status_call' = [pc |-> "update_item", project_id |-> project_id,
                         user_id |-> user_id, status |-> status,
                         timestamp |-> isoformat(t), outcome |-> NONE]
    /\ UNCHANGED <<users, projects, s3, clock, started, pc, event, loc, calls, sent,
                   lastPut, saved, before, response>>

\* update_project_status lines 220-237: update_item lands with the arguments
\* evaluated before, or raises and writes nothing; a ClientError is re-raised
\* (lines 235-237) and nothing catches anything else.
update_project_status_update_item(O) ==
    /\ status_call.pc = "update_item"
    /\ \E o \in O :
        /\ status_call' = [status_call EXCEPT !.pc = "idle", !.outcome = o]
        /\ IF o = "ok"
           THEN projects' = set_status(projects, status_call.user_id,
                                       status_call.project_id, status_call.status,
                                       status_call.timestamp)
           ELSE UNCHANGED projects
    /\ UNCHANGED <<users, s3, clock, started, status_calls, pc, event, loc, calls, sent,
                   lastPut, saved, before, response>>

\* A call of update_project_status for the user of an existing item or a
\* user id of the inputs and a project id of the inputs.
status_update ==
    \E project_id \in ProjectIds :
    \E user_id \in UserIds \cup {projects[k].userId : k \in DOMAIN projects} :
    \E status \in Statuses :
        update_project_status(project_id, user_id, status)

\* Invocations of the handler that do not overlap each other, and calls of
\* update_project_status made at any time, one at a time.
NextStatus ==
    \/ Next
    \/ status_update
    \/ update_project_status_update_item(Outcomes)

SpecStatus == Init /\ [][NextStatus]_vars

\* The contents of the user turns committed before a behaviour starts;
\* "essay" stands for a text of 2400 words.
StoredContents == {"hello", "essay"}

\* The transcript after the turns with the inputs cs were committed, one
\* invocation each (lines 311-328): turn i was stamped by clock reading i.
RECURSIVE committed_transcript(_)
committed_transcript(cs) ==
    IF cs = << >> THEN << >>
    ELSE committed_transcript(SubSeq(cs, 1, Len(cs) - 1))
         \o <<Message("user", cs[Len(cs)], isoformat(Len(cs))),
              Message("assistant", "reply", isoformat(Len(cs)))>>

\* The stores after n = Len(cs) successful invocations with payloads
\* {'email': 'e1', 'project_id': 'p1', 'input': cs[i]}, none running.
InitStored ==
    \E n \in 0..MaxStoredTurns : \E cs \in [1..n -> StoredContents] :
        /\ users = IF n = 0 THEN {} ELSE {[userId |-> "g1", email |-> "e1"]}
        /\ projects = IF n = 0 THEN << >>
                      ELSE project_key("g1", "p1") :>
                             [project_item("g1", "p1", 1, 1) EXCEPT
                                 !.updatedAt = isoformat(n),
                                 !.conversationLocation =
                                     conversation_location(s3_key("g1", "p1"))]
        /\ s3 = IF n = 0 THEN << >>
                ELSE s3_key("g1", "p1") :> json_dumps(committed_transcript(cs))
        /\ saved = IF n = 0 THEN << >>
                   ELSE s3_key("g1", "p1") :> committed_transcript(cs)
        /\ lastPut = IF n = 0 THEN << >> ELSE s3_key("g1", "p1") :> 1
        /\ clock = n
        /\ started = 0
        /\ status_calls = 0
        /\ status_call = NoStatusCall
        /\ pc = [p \in Procs |-> "idle"]
        /\ event = [p \in Procs |-> [email |-> NONE, userId |-> NONE, input |-> NONE,
                                     project_id |-> NONE, projectId |-> NONE]]
        /\ loc = [p \in Procs |-> NoLocals]
        /\ calls = [p \in Procs |-> << >>]
        /\ sent = [p \in Procs |-> << >>]
        /\ before = [p \in Procs |-> NoStores]
        /\ response = [p \in Procs |-> NoResponse]

\* Invocations that do not overlap, on stores that hold earlier turns.
lambda_handler_stored(p) == started < MaxLaterInvocations /\ lambda_handler(p)

NextStored == \E p \in Procs : lambda_handler_stored(p) \/ step(p, Outcomes)

SpecStored == InitStored /\ [][NextStored]_vars

\* Overlapping invocations whose external calls all succeed.
NextRace == \E p \in Procs : lambda_handler_concurrent(p) \/ step(p, {"ok"})

SpecRace == Init /\ [][NextRace]_vars

\* =================================================================== claims
\* Vocabulary of the claims.
IsPrefix(a, b) == Len(a) <= Len(b) /\ SubSeq(b, 1, Len(a)) = a

\* The persisted transcript of a key of a bucket: none when the key is absent.
Transcript(bucket, key) == IF key \in DOMAIN bucket THEN json_loads(bucket[key]) ELSE << >>

KeyOf(p) == s3_key(loc[p].user_id, loc[p].project_id)

\* Every external call of the invocation succeeded; a get_object that
\* answers NoSuchKey is the expected answer for a conversation never saved.
EveryCallSucceeded(p) ==
    \A i \in DOMAIN calls[p] : calls[p][i].outcome \in {"ok", "NoSuchKey"}

\* The two turns an invocation adds: the payload's input, then the reply.
IsTurnPair(msgs, input, reply) ==
    /\ Len(msgs) = 2
    /\ msgs[1].role = "user" /\ msgs[1].content = input
    /\ msgs[2].role = "assistant" /\ msgs[2].content = reply

\* C1: with invocations that do not overlap, every step leaves each persisted
\* transcript a prefix of what is persisted afterwards: no object is removed
\* and no earlier message is removed, reordered or altered, whether the
\* invocation succeeds or fails.
C1_AppendOnly ==
    [][\A k \in DOMAIN s3 :
          /\ k \in DOMAIN s3'
          /\ IsPrefix(json_loads(s3[k]), json_loads(s3'[k]))]_vars

\* C1 witness: a transcript that a second invocation has extended while a
\* later step of that invocation failed.
C1_Witness ==
    \E p \in Procs :
        /\ pc[p] = "done"
        /\ response[p].statusCode = 500
        /\ KeyOf(p) \in DOMAIN before[p].s3
        /\ Len(Transcript(s3, KeyOf(p))) = Len(Transcript(before[p].s3, KeyOf(p))) + 2

\* C2: an invocation that names an existing project with persisted transcript
\* M and whose calls all succeed answers 200 with the supplied project id, and
\* the transcript persisted afterwards is M, then the user turn, then the
\* assistant turn.
C2_ContinueProject ==
    \A p \in Procs :
        (/\ pc[p] = "done"
         /\ event[p].project_id # NONE
         /\ EveryCallSucceeded(p)
         /\ calls[p] # << >>
         /\ KeyOf(p) \in DOMAIN before[p].s3)
        => LET M == Transcript(before[p].s3, KeyOf(p))
               after == Transcript(s3, KeyOf(p))
           IN /\ response[p].statusCode = 200
              /\ response[p].body.projectId = event[p].project_id
              /\ Len(after) = Len(M) + 2
              /\ SubSeq(after, 1, Len(M)) = M
              /\ IsTurnPair(SubSeq(after, Len(M) + 1, Len(M) + 2),
                            event[p].input, response[p].body.response)

\* C2 witness: the project had a transcript of two messages and now has four.
C2_Witness ==
    \E p \in Procs :
        /\ pc[p] = "done"
        /\ event[p].project_id # NONE
        /\ EveryCallSucceeded(p)
        /\ Len(Transcript(before[p].s3, KeyOf(p))) = 2
        /\ Len(Transcript(s3, KeyOf(p))) = 4
        /\ response[p].statusCode = 200

\* C3: an invocation with an email and an input and no project id, for which
\* the stores held no user (hence no project and no transcript), and whose
\* calls all succeed, answers 200 with a generated project id and the
\* assistant's text; afterwards there is one new user item for the email, a
\* new project item for (user, project id) and a transcript for the pair that
\* is exactly the user turn followed by the assistant turn.
C3_NewProject ==
    \A p \in Procs :
        (/\ pc[p] = "done"
         /\ event[p].email # NONE /\ event[p].input # NONE
         /\ event[p].project_id = NONE
         /\ scan_email(before[p].users, event[p].email) = {}
         /\ EveryCallSucceeded(p))
        => LET pid == response[p].body.projectId
               mine == scan_email(users, event[p].email)
           IN /\ response[p].statusCode = 200
              /\ pid \in {UuidPool[i] : i \in DOMAIN UuidPool}
              /\ \A k \in DOMAIN before[p].projects : k[1] # pid
              /\ response[p].body.response \in Replies
              /\ Cardinality(mine) = 1
              /\ mine \cap before[p].users = {}
              /\ \A u \in mine :
                    /\ project_key(u.userId, pid) \in DOMAIN projects
                    /\ project_key(u.userId, pid) \notin DOMAIN before[p].projects
                    /\ s3_key(u.userId, pid) \notin DOMAIN before[p].s3
                    /\ IsTurnPair(Transcript(s3, s3_key(u.userId, pid)),
                                  event[p].input, response[p].body.response)

\* C3 witness: such an invocation has answered.
C3_Witness ==
    \E p \in Procs :
        /\ pc[p] = "done"
        /\ event[p].email # NONE /\ event[p].input # NONE
        /\ event[p].project_id = NONE
        /\ before[p].users = {} /\ before[p].projects = << >> /\ before[p].s3 = << >>
        /\ EveryCallSucceeded(p)
        /\ response[p].statusCode = 200
        /\ Cardinality(users) = 1 /\ Cardinality(DOMAIN projects) = 1
        /\ Cardinality(DOMAIN s3) = 1

\* The step a call belongs to raised: its failure left the method it was
\* made in (get_user and get_project return None on a ClientError).
Raised(c) ==
    IF c.op = "users_table.scan" THEN get_user_raises(c.outcome)
    ELSE IF c.op = "projects_table.get_item" THEN get_project_raises(c.outcome)
    ELSE c.outcome \in {"ClientError", "Exception"}

Failed(c) == c.outcome \in {"ClientError", "Exception"}

StoreOps ==
    {"users_table.scan", "users_table.put_item", "projects_table.get_item",
     "projects_table.put_item", "s3.get_object", "s3.put_object",
     "projects_table.update_item"}

\* C4: resolving an identifier that was resolved before returns the user of
\* the first resolution and writes no second user item: the email keeps
\* exactly one item.
C4_ResolveIdempotent ==
    \A p \in Procs :
        (/\ loc[p].user_id # NONE
         /\ scan_email(before[p].users, loc[p].email) # {})
        => /\ loc[p].user_id \in {u.userId : u \in scan_email(before[p].users, loc[p].email)}
           /\ Cardinality(scan_email(users, loc[p].email)) = 1

\* C5: a failed call to a table or to the bucket is the last call of its
\* invocation, which answers 500.
C5_StorageFailureStops ==
    \A p \in Procs : \A i \in DOMAIN calls[p] :
        (calls[p][i].op \in StoreOps /\ Failed(calls[p][i]))
        => /\ i = Len(calls[p])
           /\ pc[p] = "done"
           /\ response[p].statusCode = 500

\* C6: when update_item fails after put_object succeeded, the step changes
\* neither the project items nor the bucket, the object already holds the
\* conversation with the new user and assistant turns, and the handler
\* answers 500.
C6_CommitNotTransactional ==
    [][\A p \in Procs :
          (/\ pc[p] = "update" /\ pc'[p] = "done"
           /\ Failed(calls'[p][Len(calls'[p])]))
          => /\ response'[p].statusCode = 500
             /\ projects' = projects
             /\ KeyOf(p) \in DOMAIN s3'
             /\ json_loads(s3'[KeyOf(p)]) = loc[p].conversation
             /\ Len(loc[p].conversation) >= 2
             /\ IsTurnPair(SubSeq(loc[p].conversation, Len(loc[p].conversation) - 1,
                                  Len(loc[p].conversation)),
                           event[p].input, loc[p].assistant_response)
             /\ Transcript(s3', KeyOf(p)) =
                    Transcript(before[p].s3, KeyOf(p))
                    \o SubSeq(loc[p].conversation, Len(loc[p].conversation) - 1,
                              Len(loc[p].conversation))]_vars

\* C6 witness: update_item failed on a project that was committed before, so
\* its item still carries the time of the earlier turn while the object has
\* the four messages.
C6_Witness ==
    \E p \in Procs :
        /\ pc[p] = "done"
        /\ response[p].statusCode = 500
        /\ calls[p] # << >>
        /\ calls[p][Len(calls[p])].op = "projects_table.update_item"
        /\ Len(Transcript(s3, KeyOf(p))) = 4
        /\ project_key(loc[p].user_id, loc[p].project_id) \in DOMAIN projects
        /\ projects[project_key(loc[p].user_id, loc[p].project_id)].updatedAt = isoformat(1)
        /\ projects[project_key(loc[p].user_id, loc[p].project_id)].conversationLocation
               = conversation_location(KeyOf(p))
        /\ clock = 2

\* The transcript an invocation loaded: its conversation without the two
\* turns it appended.
Loaded(p) == SubSeq(loc[p].conversation, 1, Len(loc[p].conversation) - 2)

NewTurns(p) ==
    SubSeq(loc[p].conversation, Len(loc[p].conversation) - 1, Len(loc[p].conversation))

\* Two invocations for the same user and project that loaded the same
\* transcript and both answered 200.
BothCommitted(p, q) ==
    /\ p # q
    /\ pc[p] = "done" /\ pc[q] = "done"
    /\ response[p].statusCode = 200 /\ response[q].statusCode = 200
    /\ KeyOf(p) = KeyOf(q)
    /\ Loaded(p) = Loaded(q)

\* C7: concurrent invocations are not coordinated: when two invocations for
\* the same user and project loaded the same transcript M and both answered
\* 200, the persisted transcript is M and the turn pair of the one whose
\* put_object came last, the other's pair having been overwritten.
C7_LastSaveWins ==
    \A p, q \in Procs :
        BothCommitted(p, q)
        => /\ KeyOf(p) \in DOMAIN lastPut
           /\ lastPut[KeyOf(p)] \in {p, q}
           /\ Transcript(s3, KeyOf(p)) = Loaded(p) \o NewTurns(lastPut[KeyOf(p)])

\* C7 witness: two invocations with different inputs loaded the same
\* transcript of one project, both answered 200, and the input of the one
\* that stored first is in no message of the persisted transcript.
C7_Witness ==
    \E p, q \in Procs :
        /\ BothCommitted(p, q)
        /\ lastPut[KeyOf(p)] = q
        /\ event[p].input # event[q].input
        /\ Len(Transcript(s3, KeyOf(p))) = Len(Loaded(p)) + 2
        /\ \A i \in DOMAIN Transcript(s3, KeyOf(p)) :
               Transcript(s3, KeyOf(p))[i].content # event[p].input

\* C8: a payload without 'input' or without the identifier 'email' is
\* answered 400 at once: no call is made to the tables, the bucket, or the
\* completion service, and the tables and the bucket stay as they were.
C8_ValidationNoSideEffects ==
    \A p \in Procs :
        (pc[p] # "idle" /\ (event[p].input = NONE \/ event[p].email = NONE))
        => /\ pc[p] = "done"
           /\ response[p].statusCode = 400
           /\ calls[p] = << >>
           /\ sent[p] = << >>
           /\ users = before[p].users
           /\ projects = before[p].projects
           /\ s3 = before[p].s3

\* C8 witness: a payload with an email and no input was answered 400 while
\* the stores hold the records of an earlier invocation.
C8_Witness ==
    \E p \in Procs :
        /\ pc[p] = "done"
        /\ event[p].email # NONE /\ event[p].input = NONE
        /\ response[p].statusCode = 400
        /\ users # {} /\ DOMAIN s3 # {}

\* C9 as stated: a payload with 'userId' and 'input' is not answered 400,
\* and a project id given under 'projectId' is the one in the response.
C9_EitherKeyAccepted ==
    \A p \in Procs :
        pc[p] = "done"
        => /\ (event[p].userId # NONE /\ event[p].input # NONE)
                  => response[p].statusCode # 400
           /\ (event[p].projectId # NONE /\ response[p].statusCode = 200)
                  => response[p].body.projectId = event[p].projectId

\* C9 amended: the identifier is read from 'email' alone and the project id
\* from 'project_id' alone.  A payload without 'email' is answered 400,
\* whatever it carries under 'userId'; a project id under 'project_id' is
\* the one of the project item, of the transcript key and of the response;
\* without 'project_id' a generated id is used, whatever is under 'projectId'.
C9_EmailAndProjectIdKeys ==
    \A p \in Procs :
        /\ (pc[p] = "done" /\ event[p].email = NONE) => response[p].statusCode = 400
        /\ (pc[p] # "idle" /\ event[p].email # NONE /\ event[p].input # NONE)
           => /\ loc[p].email = event[p].email
              /\ event[p].project_id # NONE => loc[p].project_id = event[p].project_id
              /\ event[p].project_id = NONE =>
                     /\ loc[p].project_id \in {UuidPool[i] : i \in DOMAIN UuidPool}
                     /\ loc[p].project_id # event[p].projectId
              /\ (pc[p] = "done" /\ response[p].statusCode = 200)
                 => /\ response[p].body.projectId = loc[p].project_id
                    /\ project_key(loc[p].user_id, loc[p].project_id) \in DOMAIN projects
                    /\ s3_key(loc[p].user_id, loc[p].project_id) \in DOMAIN s3
                    /\ projects[project_key(loc[p].user_id, loc[p].project_id)].projectId
                           = loc[p].project_id

\* C9 witness: a payload with a project id under 'projectId' was answered 200
\* with a generated project id, under which the project item was created.
C9_Witness ==
    \E p \in Procs :
        /\ pc[p] = "done"
        /\ event[p].projectId # NONE
        /\ response[p].statusCode = 200
        /\ response[p].body.projectId # event[p].projectId
        /\ project_key(loc[p].user_id, response[p].body.projectId) \in DOMAIN projects

\* C10: an invocation that has ended returned a response with status 200,
\* 400 or 500; a step that raised gives 500 with an error body, and 500 is
\* given for nothing else; an invocation that has not ended can take a step.
C10_StructuredResponse ==
    \A p \in Procs :
        /\ pc[p] = "done"
           => /\ response[p].statusCode \in {200, 400, 500}
              /\ (calls[p] # << >> /\ Raised(calls[p][Len(calls[p])]))
                  <=> response[p].statusCode = 500
              /\ response[p].statusCode = 500
                  => response[p].body =
                         [error |-> "Internal server error: "
                                        \o calls[p][Len(calls[p])].outcome]
              /\ response[p].statusCode = 400 => response[p].body.error # NONE
        /\ pc[p] \notin {"idle", "done"} => ENABLED step(p, Outcomes)

\* C10 witness: the completion service failed after the stores had answered,
\* and the handler returned 500.
C10_Witness ==
    \E p \in Procs :
        /\ pc[p] = "done"
        /\ response[p].statusCode = 500
        /\ calls[p][Len(calls[p])].op = "claude.messages.create"

\* The calls of an invocation to the completion service.
CompletionCalls(p) == {i \in DOMAIN calls[p] : calls[p][i].op = "claude.messages.create"}

\* C11: when the call to the completion service fails, it was the only such
\* call of the invocation, the handler answers 500, the bucket is as it was
\* before the invocation (the user turn is not persisted), and every project
\* item that existed then has the conversationLocation and the updatedAt it
\* had.
C11_CompletionFailureLeavesStores ==
    \A p \in Procs :
        (/\ pc[p] = "done"
         /\ calls[p] # << >>
         /\ calls[p][Len(calls[p])].op = "claude.messages.create"
         /\ Failed(calls[p][Len(calls[p])]))
        => /\ Cardinality(CompletionCalls(p)) = 1
           /\ response[p].statusCode = 500
           /\ s3 = before[p].s3
           /\ \A k \in DOMAIN before[p].projects :
                 /\ k \in DOMAIN projects
                 /\ projects[k].conversationLocation = before[p].projects[k].conversationLocation
                 /\ projects[k].updatedAt = before[p].projects[k].updatedAt

\* Line 17: the budget of the estimated size of a loaded transcript.
max_context_tokens == 3000

\* The number of words of a message text, len(content.split()): "essay"
\* stands for a text of 2400 words, every other text of the model is one word.
word_count(content) == IF content = "essay" THEN 2400 ELSE 1

\* Ten times the estimated size of a transcript, the sum over its messages of
\* word_count(content) x 1.3, kept in integers.
RECURSIVE estimated_tokens_x10(_)
estimated_tokens_x10(messages) ==
    IF messages = << >> THEN 0
    ELSE 13 * word_count(Head(messages).content) + estimated_tokens_x10(Tail(messages))

OverBudget(messages) == estimated_tokens_x10(messages) > 10 * max_context_tokens

\* The trimming the specification describes: while the transcript is over
\* budget and longer than 2 messages, its oldest message is removed.
RECURSIVE trimmed(_)
trimmed(messages) ==
    IF OverBudget(messages) /\ Len(messages) > 2 THEN trimmed(Tail(messages))
    ELSE messages

\* The transcript an invocation got from get_conversation_context, read
\* right after the load: its conversation without the user turn it appended.
JustLoaded(p) == SubSeq(loc[p].conversation, 1, Len(loc[p].conversation) - 1)

\* C12: a load of a stored transcript whose estimated size exceeds the budget
\* of 3000 returns it without its oldest messages, removed one at a time until
\* the size is under budget or 2 messages remain: the loaded transcript is the
\* trimmed stored one.
C12_TrimmedOnLoad ==
    \A p \in Procs :
        pc[p] = "generate" => JustLoaded(p) = trimmed(Transcript(s3, KeyOf(p)))

IsSuffix(a, b) == Len(a) <= Len(b) /\ SubSeq(b, Len(b) - Len(a) + 1, Len(b)) = a

\* C13: a load of a stored transcript of at least 2 messages, however far
\* over budget, returns at least 2 messages, and they are the most recent
\* stored messages in their stored order.
C13_LoadKeepsTwoNewest ==
    \A p \in Procs :
        (pc[p] = "generate" /\ Len(Transcript(s3, KeyOf(p))) >= 2)
        => /\ Len(JustLoaded(p)) >= 2
           /\ IsSuffix(JustLoaded(p), Transcript(s3, KeyOf(p)))

\* A transcript of 2 messages whose estimated size exceeds the budget was
\* loaded, and both messages were returned.
C13_Witness ==
    \E p \in Procs :
        /\ pc[p] = "generate"
        /\ Len(Transcript(s3, KeyOf(p))) = 2
        /\ OverBudget(Transcript(s3, KeyOf(p)))
        /\ Len(JustLoaded(p)) = 2

\* The roles and contents of a message sequence, in order.
RolesAndContents(messages) ==
    [i \in 1..Len(messages) |-> <<messages[i].role, messages[i].content>>]

\* C14: when the conversation last saved for a user and project by
\* append_conversation is within the budget, a load for the same user and
\* project returns messages with the same roles and contents in the same
\* order.
C14_SaveLoadRoundTrip ==
    \A p \in Procs :
        (/\ pc[p] = "generate"
         /\ KeyOf(p) \in DOMAIN saved
         /\ ~OverBudget(saved[KeyOf(p)]))
        => RolesAndContents(JustLoaded(p)) = RolesAndContents(saved[KeyOf(p)])

\* An invocation loaded the conversation an earlier invocation saved: two
\* messages, a user turn and the reply to it.
C14_Witness ==
    \E p \in Procs :
        /\ pc[p] = "generate"
        /\ KeyOf(p) \in DOMAIN saved
        /\ Len(saved[KeyOf(p)]) = 2
        /\ ~OverBudget(saved[KeyOf(p)])
        /\ RolesAndContents(JustLoaded(p)) = <<<<"user", "hello">>, <<"assistant", "reply">>>>

\* C15: the messages handed to the completion service are the messages of
\* the transcript stored when the invocation began, each as its role and
\* content only, in stored order and none left out, then the user turn of the
\* invocation as the last one.
C15_CompletionInput ==
    \A p \in Procs :
        sent[p] # << >> =>
            LET stored == Transcript(before[p].s3, KeyOf(p)) IN
            /\ Len(sent[p]) = Len(stored) + 1
            /\ \A i \in 1..Len(stored) :
                   sent[p][i] = [role |-> stored[i].role, content |-> stored[i].content]
            /\ sent[p][Len(sent[p])] = [role |-> "user", content |-> event[p].input]

\* Five messages were handed over, the stored user turns and the new one
\* with the same text: the repeated messages were all kept.
C15_Witness ==
    \E p \in Procs :
        /\ Len(sent[p]) = 5
        /\ sent[p][1] = sent[p][3]
        /\ sent[p][3] = sent[p][5]
        /\ sent[p][2] = sent[p][4]
        /\ sent[p][4].role = "assistant"

\* The invocation has just come back from get_conversation_context: its last
\* call is the get_object.
AfterGetObject(p) ==
    /\ calls[p] # << >>
    /\ calls[p][Len(calls[p])].op = "s3.get_object"

\* C16: a load for a user and project whose conversation was never saved
\* gets the not-found answer of get_object, returns no messages and raises
\* nothing; the not-found answer is given for such pairs only; and a get_object
\* that fails in any other way ends the invocation with a 500.
C16_NeverSavedLoadsEmpty ==
    \A p \in Procs :
        AfterGetObject(p) =>
            LET c == calls[p][Len(calls[p])] IN
            /\ (KeyOf(p) \notin DOMAIN saved /\ ~Failed(c))
               => /\ c.outcome = "NoSuchKey"
                  /\ pc[p] = "generate"
                  /\ JustLoaded(p) = << >>
                  /\ response[p] = NoResponse
            /\ c.outcome = "NoSuchKey" => KeyOf(p) \notin DOMAIN saved
            /\ Failed(c)
               => /\ pc[p] = "done"
                  /\ response[p].statusCode = 500

\* After one conversation was saved, a load for a project that has none got
\* the not-found answer and returned no messages.
C16_Witness ==
    \E p \in Procs :
        /\ AfterGetObject(p)
        /\ calls[p][Len(calls[p])].outcome = "NoSuchKey"
        /\ DOMAIN saved # {}
        /\ KeyOf(p) \notin DOMAIN saved
        /\ pc[p] = "generate"
        /\ JustLoaded(p) = << >>

\* C17: the item create_project has just written for a key that had no
\* item carries a status (IN_PROGRESS or a value standing for it), and its
\* createdAt and updatedAt are both the current time.
C17_CreatedInProgress ==
    \A p \in Procs :
        (/\ pc[p] = "load"
         /\ calls[p][Len(calls[p])] = Call("projects_table.put_item", "ok")
         /\ project_key(loc[p].user_id, loc[p].project_id) \notin DOMAIN before[p].projects)
        => LET item == projects[project_key(loc[p].user_id, loc[p].project_id)] IN
           /\ item.status # NONE
           /\ item.createdAt = isoformat(clock)
           /\ item.updatedAt = isoformat(clock)

\* C18: no step deletes or re-creates a project item that exists: the item
\* stays, its createdAt stays as it is and a conversationLocation it has is not
\* removed; its status is changed by no step of an invocation, only by
\* update_project_status; and the step that commits a turn writes
\* conversationLocation and updatedAt only.
C18_ProjectNeverRecreated ==
    [][\A k \in DOMAIN projects :
          /\ k \in DOMAIN projects'
          /\ projects'[k].createdAt = projects[k].createdAt
          /\ projects'[k].status # projects[k].status => UNCHANGED <<pc, calls>>
          /\ projects[k].conversationLocation # NONE
             => projects'[k].conversationLocation # NONE
          /\ (\E p \in Procs : pc[p] = "update" /\ pc'[p] = "done")
             => [projects'[k] EXCEPT
                    !.conversationLocation = projects[k].conversationLocation,
                    !.updatedAt = projects[k].updatedAt] = projects[k]]_vars

\* C19: in every state, however invocations overlap and whatever calls
\* fail, a project item with a conversationLocation points to the object
\* {userId}/{projectId}/conversation.json of its own user and project in the
\* conversation bucket, and the bucket holds an object under that key.
C19_LocationPointsToBlob ==
    \A k \in DOMAIN projects :
        projects[k].conversationLocation # NONE =>
            LET own == projects[k].userId \o "/" \o projects[k].projectId
                       \o "/conversation.json" IN
            /\ k = <<projects[k].projectId, projects[k].userId>>
            /\ projects[k].conversationLocation = "s3://project-conversation-context/" \o own
            /\ own \in DOMAIN s3

\* One project has its conversationLocation, while an overlapping invocation
\* has stored the object of another project whose item has no
\* conversationLocation yet: the put came first, the update is still to come.
C19_Witness ==
    /\ \E k \in DOMAIN projects : projects[k].conversationLocation # NONE
    /\ \E p \in Procs :
          /\ pc[p] = "update"
          /\ KeyOf(p) \in DOMAIN s3
          /\ project_key(loc[p].user_id, loc[p].project_id) \in DOMAIN projects
          /\ projects[project_key(loc[p].user_id, loc[p].project_id)].conversationLocation = NONE
    /\ \E q \in Procs : pc[q] \notin {"idle", "done"} /\ \E i \in DOMAIN calls[q] : Failed(calls[q][i])

\* The object and the item of a user and project.
PairObject(user_id, project_id) == user_id \o "/" \o project_id \o "/conversation.json"
PairItem(user_id, project_id) == <<project_id, user_id>>

\* The objects and the items a step changes, adds or removes.
ObjectsWritten == {k \in DOMAIN s3 \cup DOMAIN s3' :
                      k \notin DOMAIN s3 \/ k \notin DOMAIN s3' \/ s3'[k] # s3[k]}
ItemsWritten == {k \in DOMAIN projects \cup DOMAIN projects' :
                    k \notin DOMAIN projects \/ k \notin DOMAIN projects'
                    \/ projects'[k] # projects[k]}

\* Invocation p takes the step from the given position.
Takes(p, position) == pc[p] = position /\ pc'[p] # position

\* C20: however invocations overlap, a step changes no object but the one
\* of the user and project of the invocation that is storing its conversation,
\* and no item but the one of the user and project of the invocation that is
\* creating or updating its project; and the transcript an invocation loads is
\* the one stored for its own user and project.
C20_PairIsolation ==
    [][/\ \A k \in ObjectsWritten :
             \E p \in Procs : /\ Takes(p, "put")
                              /\ k = PairObject(loc[p].user_id, loc[p].project_id)
       /\ \A k \in ItemsWritten :
             \E p \in Procs : /\ Takes(p, "create_project") \/ Takes(p, "update")
                              /\ k = PairItem(loc[p].user_id, loc[p].project_id)
       /\ \A p \in Procs :
             (Takes(p, "load") /\ pc'[p] = "generate")
             => SubSeq(loc'[p].conversation, 1, Len(loc'[p].conversation) - 1)
                = Transcript(s3, PairObject(loc[p].user_id, loc[p].project_id))
      ]_vars

\* Two overlapping invocations for different projects have both stored their
\* conversations: the bucket holds each under its own key, each with the
\* turns of its own invocation only.
C20_Witness ==
    \E p, q \in Procs :
        /\ pc[p] = "update" /\ pc[q] = "update"
        /\ loc[p].project_id # loc[q].project_id
        /\ event[p].input # event[q].input
        /\ Transcript(s3, PairObject(loc[p].user_id, loc[p].project_id)) = loc[p].conversation
        /\ Transcript(s3, PairObject(loc[q].user_id, loc[q].project_id)) = loc[q].conversation
        /\ loc[p].conversation[1].content = event[p].input
        /\ loc[q].conversation[1].content = event[q].input

====
